---------------------------- MODULE Spec2Model ----------------------------
(***************************************************************************)
(* Model of greenstream: the HLS upload pipeline of src/cli/index.ts       *)
(* (main, uploadHLSAssetsToWalrus and its helpers), the conversion stage   *)
(* of src/cli/src/ffmpeg.ts (validateInputFile, ensureOutputDir,           *)
(* runFFmpegConversion) and the ledger module                              *)
(* src/sui-video/sources/video.move (save_video).                          *)
(*                                                                         *)
(* Strings are sequences of one-character strings, so that startsWith,     *)
(* endsWith, path.basename, path.dirname, path.extname and the line        *)
(* regular expressions are computed character by character, as the code    *)
(* computes them.  Paths are POSIX paths (separator "/").                  *)
(***************************************************************************)
EXTENDS Integers, Sequences, FiniteSets, TLC

VARIABLES
    rootList,      \* readdirSync(assetsPath): sequence of [name, isDir]
    dirList,       \* readdirSync(<stream dir>): stream dir name -> file names
    disk,          \* regular files under assetsPath: relative path -> content
    store,         \* the storage network: sequence of stored contents, id = index
    calls,         \* log of `walrus store` invocations
    blobMappings,  \* the BlobMapping object: entries [path, id] in insertion order
    events,        \* log of the stages' steps, each with the mapping it saw
    pc,            \* position of uploadHLSAssetsToWalrus
    masterBlobId,  \* what processAndUploadMasterPlaylist returned
    returned,      \* the value uploadHLSAssetsToWalrus resolved with, if any
    awaiting,      \* the settled promise of uploadToWalrus the run's `await` waits on, if any
    other,         \* a second call of uploadHLSAssetsToWalrus on the event loop, if any
    resumedAt,     \* the position at which the event loop last gave this call the turn
    exitStatus,    \* <<>> while the process of main() runs, then <<its exit status>>
    stderr,        \* what main() printed with console.error
    previous,      \* the results of the earlier runs over this output directory
    videos,        \* the ledger's Video objects, in creation order
    epochTimestampMs, \* tx_context::epoch_timestamp_ms of the ledger
    saved,         \* log of the save_video calls: arguments and epoch timestamp
    cwd,           \* process.cwd() of the conversion process
    fsDirs,        \* the directories that exist, as absolute paths
    execLog,       \* the transcoder invocations: working directory and input path
    hookState,     \* the component using useHlsPlayer: "initial", "mounted", "unmounted"
    support,       \* what the browser offers the effect: hls.js, native HLS, neither, no video
    dataUrl,       \* the dataUrl of the last render
    hlsRef,        \* hlsRef.current: an index into instances, NoHls for null
    instances,     \* every Hls instance ever constructed, in construction order
    cleanupOf,     \* the instance the pending effect cleanup closes over, NoHls for none
    qualities,     \* the qualities state
    currentQuality, \* the currentQuality state
    levelWrites,   \* log of the assignments to currentLevel made by changeQuality
    fn,            \* which function a pure-function harness applies
    arg,           \* its input
    ret            \* its result

vars == <<rootList, dirList, disk, store, calls, blobMappings, events, pc,
          masterBlobId, returned, awaiting, other, resumedAt, exitStatus, stderr, previous,
          videos, epochTimestampMs, saved, cwd, fsDirs, execLog,
          hookState, support, dataUrl, hlsRef, instances, cleanupOf, qualities,
          currentQuality, levelWrites, fn, arg, ret>>

mainVars == <<exitStatus, stderr, previous>>

concVars == <<other, resumedAt>>

pipelineVars == <<rootList, dirList, disk, store, calls, blobMappings, events,
                  pc, masterBlobId, returned, awaiting, concVars, mainVars>>

chainVars == <<videos, epochTimestampMs, saved>>

transcodeVars == <<cwd, fsDirs, execLog>>

playerVars == <<hookState, support, dataUrl, hlsRef, instances, cleanupOf, qualities,
                currentQuality, levelWrites>>

-----------------------------------------------------------------------------
(* Bounds *)

\* segment files per rendition directory
MaxSegs == 2
\* lines of a manifest handed to the rewriting passes on their own
MaxLines == 2
\* entries of a blob mapping handed to the rewriting passes on their own
MaxEntries == 2
\* records of a structured result handed to the result parser on its own
MaxResults == 2
\* characters in front of the extension of a validated path
MaxStem == 2
\* calls of save_video in one history of the ledger
MaxVideos == 2
\* Hls instances constructed during the life of one player component
MaxInstances == 3
\* quality levels of a manifest
MaxLevels == 2
\* quality selections made during the life of one player component
MaxWrites == 2
\* the epoch timestamps the ledger passes through
MaxEpochMs == 2

-----------------------------------------------------------------------------
(* Strings *)

StartsWith(s, p) ==
    Len(p) <= Len(s) /\ SubSeq(s, 1, Len(p)) = p

EndsWith(s, p) ==
    Len(p) <= Len(s) /\ SubSeq(s, Len(s) - Len(p) + 1, Len(s)) = p

SEP == <<"/">>

STREAM_PREFIX == <<"s", "t", "r", "e", "a", "m", "_">>

TS_EXT == <<".", "t", "s">>

PLAYLIST_NAME == <<"p", "l", "a", "y", "l", "i", "s", "t", ".", "m", "3", "u", "8">>

TEMP_PLAYLIST_NAME == <<"t", "e", "m", "p", "_">> \o PLAYLIST_NAME

MASTER_NAME == <<"m", "a", "s", "t", "e", "r", ".", "m", "3", "u", "8">>

TEMP_MASTER_NAME == <<"t", "e", "m", "p", "_">> \o MASTER_NAME

\* index of the last "/" of p, 0 when there is none
LastSlash(p) ==
    LET S == {i \in 1..Len(p) : p[i] = "/"}
    IN  IF S = {} THEN 0 ELSE CHOOSE i \in S : \A j \in S : j <= i

\* path.basename, for a path without trailing separators
Basename(p) ==
    SubSeq(p, LastSlash(p) + 1, Len(p))

\* path.dirname, for a path without trailing separators
Dirname(p) ==
    IF LastSlash(p) = 0 THEN <<".">>
    ELSE IF LastSlash(p) = 1 THEN <<"/">>
    ELSE SubSeq(p, 1, LastSlash(p) - 1)

\* path.join of a directory and a name that need no normalisation
PathJoin(a, b) ==
    a \o SEP \o b

\* the path names a temporary file
IsTempPath(path) ==
    Basename(path) \in {TEMP_PLAYLIST_NAME, TEMP_MASTER_NAME}

-----------------------------------------------------------------------------
(* Blob identifiers, manifest lines, the retrieval URL *)

\* an absent identifier: `undefined` of an optional field or a missing key
NoId == 0

\* a line of text
TextLine(s) ==
    [k |-> "txt", s |-> s, id |-> NoId]

\* the line `${BLOB_ENDPOINT}/${blobId}`
BlobUrl(blobId) ==
    [k |-> "url", s |-> <<>>, id |-> blobId]

\* the bytes of a segment file: opaque, and different for different files
SegmentBytes(path) ==
    <<[k |-> "bin", s |-> path, id |-> NoId]>>

(* new RegExp(`^${pattern}$`, "gm") against one line.  The pattern is put  *)
(* into the expression unescaped: "." stands for any character, every      *)
(* other character of the model's alphabet for itself.  A retrieval URL is *)
(* longer than every pattern of the model and so never matches.            *)
RegexLineMatch(pattern, line) ==
    /\ line.k = "txt"
    /\ Len(line.s) = Len(pattern)
    /\ \A i \in 1..Len(pattern) : pattern[i] = "." \/ pattern[i] = line.s[i]

\* content.replace(new RegExp(`^${pattern}$`, "gm"), url)
ReplaceLines(content, pattern, url) ==
    [i \in 1..Len(content) |->
        IF RegexLineMatch(pattern, content[i]) THEN url ELSE content[i]]

(* new RegExp(`^${streamDir}/playlist\\.m3u8$`, "gm") against one line:    *)
(* streamDir unescaped, the rest literal.                                  *)
MasterLineMatch(streamDir, line) ==
    /\ line.k = "txt"
    /\ Len(line.s) = Len(streamDir) + 1 + Len(PLAYLIST_NAME)
    /\ RegexLineMatch(streamDir, TextLine(SubSeq(line.s, 1, Len(streamDir))))
    /\ SubSeq(line.s, Len(streamDir) + 1, Len(line.s)) = SEP \o PLAYLIST_NAME

-----------------------------------------------------------------------------
(* The BlobMapping object: its entries in Object.entries order, which for  *)
(* keys that are paths is the order of first insertion.                    *)

Keys(m) ==
    {m[i].path : i \in 1..Len(m)}

Lookup(m, path) ==
    IF \E i \in 1..Len(m) : m[i].path = path
    THEN (CHOOSE e \in {m[i] : i \in 1..Len(m)} : e.path = path).id
    ELSE NoId

\* m[path] = id
Assign(m, path, id) ==
    IF path \in Keys(m)
    THEN [i \in 1..Len(m) |-> IF m[i].path = path THEN [path |-> path, id |-> id] ELSE m[i]]
    ELSE Append(m, [path |-> path, id |-> id])

RECURSIVE AssignAllFrom(_, _, _)
AssignAllFrom(m, src, i) ==
    IF i > Len(src) THEN m
    ELSE AssignAllFrom(Assign(m, src[i].path, src[i].id), src, i + 1)

\* Object.assign(m, src)
ObjectAssign(m, src) ==
    AssignAllFrom(m, src, 1)

-----------------------------------------------------------------------------
(* uploadToWalrus: the parsing of the storage client's structured result.  *)
(* A record is [path, ac, nc]: ac the alreadyCertified blobId, nc the      *)
(* newlyCreated blobObject's blobId, NoId for an absent variant.           *)

\* the record carries one of the two success variants
Resolved(r) ==
    r.ac # NoId \/ r.nc # NoId

ResolveBlobId_PreferNew(r) ==
    IF r.nc # NoId THEN r.nc ELSE r.ac

ResolveBlobId(r) ==
    IF r.ac # NoId THEN r.ac ELSE r.nc

RECURSIVE ParseResultsFrom(_, _, _)
ParseResultsFrom(m, results, i) ==
    IF i > Len(results) THEN m
    ELSE ParseResultsFrom(
            IF ResolveBlobId(results[i]) # NoId
            THEN Assign(m, results[i].path, ResolveBlobId(results[i]))
            ELSE m,
            results, i + 1)

ParseResults(results) ==
    ParseResultsFrom(<<>>, results, 1)

-----------------------------------------------------------------------------
(* The two rewriting passes *)

RECURSIVE UpdatePlaylistFrom(_, _, _, _)
UpdatePlaylistFrom(content, streamDir, m, i) ==
    IF i > Len(m) THEN content
    ELSE UpdatePlaylistFrom(
            IF StartsWith(m[i].path, streamDir \o SEP) /\ EndsWith(m[i].path, TS_EXT)
            THEN ReplaceLines(content, Basename(m[i].path), BlobUrl(m[i].id))
            ELSE content,
            streamDir, m, i + 1)

UpdatePlaylistContent(playlistContent, streamDir, m) ==
    UpdatePlaylistFrom(playlistContent, streamDir, m, 1)

RECURSIVE RewriteMasterFrom(_, _, _)
RewriteMasterFrom(content, m, i) ==
    IF i > Len(m) THEN content
    ELSE RewriteMasterFrom(
            IF EndsWith(m[i].path, PLAYLIST_NAME)
            THEN [j \in 1..Len(content) |->
                    IF MasterLineMatch(Dirname(m[i].path), content[j])
                    THEN BlobUrl(m[i].id) ELSE content[j]]
            ELSE content,
            m, i + 1)

RewriteMaster(masterContent, m) ==
    RewriteMasterFrom(masterContent, m, 1)

-----------------------------------------------------------------------------
(* validateInputFile *)

\* String.prototype.toLowerCase over the model's alphabet
LowerChar(c) ==
    IF c = "M" THEN "m" ELSE IF c = "P" THEN "p" ELSE c

ToLowerCase(s) ==
    [i \in 1..Len(s) |-> LowerChar(s[i])]

\* index of the last character of p that is not "/", 0 when there is none
LastNonSlash(p) ==
    LET S == {i \in 1..Len(p) : p[i] # "/"}
    IN  IF S = {} THEN 0 ELSE CHOOSE i \in S : \A j \in S : j <= i

\* the last component of p, trailing separators ignored
LastComponent(p) ==
    LET e == LastNonSlash(p)
        q == SubSeq(p, 1, e)
    IN  SubSeq(q, LastSlash(q) + 1, e)

(* path.extname: from the last "." of the last component to its end; empty *)
(* when there is no ".", when the only "." is the component's first        *)
(* character, and for the component "..".                                   *)
ExtName(p) ==
    LET b == LastComponent(p)
        D == {i \in 1..Len(b) : b[i] = "."}
        d == IF D = {} THEN 0 ELSE CHOOSE i \in D : \A j \in D : j <= i
    IN  IF d = 0 \/ d = 1 \/ b = <<".", ".">> THEN <<>>
        ELSE SubSeq(b, d, Len(b))

MP4_EXT == <<".", "m", "p", "4">>

ValidateInputFile_CaseSensitive(filePath, exists) ==
    IF ~exists THEN "NotFound"
    ELSE IF ExtName(filePath) # MP4_EXT THEN "UnsupportedFormat"
    ELSE "accepted"

ValidateInputFile(filePath, exists) ==
    IF ~exists THEN "NotFound"
    ELSE IF ToLowerCase(ExtName(filePath)) # MP4_EXT THEN "UnsupportedFormat"
    ELSE "accepted"

-----------------------------------------------------------------------------
(* Inputs of the harnesses that apply one function on its own *)

SeqsUpTo(S, n) ==
    UNION {[1..k -> S] : k \in 0..n}

stream_1 == STREAM_PREFIX \o <<"1">>

stream_10 == STREAM_PREFIX \o <<"1", "0">>

\* the keys a blob mapping handed to a rewriting pass may hold; entry k has id k
RewriteKeys ==
    << PathJoin(stream_1, <<"a", "a", "a", ".", "t", "s">>),
       PathJoin(stream_1, <<"a", ".", "a", ".", "t", "s">>),
       PathJoin(stream_10, <<"a", "a", "a", ".", "t", "s">>),
       PathJoin(stream_1, PLAYLIST_NAME),
       PathJoin(stream_10, PLAYLIST_NAME) >>

RewriteMappings ==
    {[i \in 1..Len(ks) |-> [path |-> RewriteKeys[ks[i]], id |-> ks[i]]] :
        ks \in {s \in SeqsUpTo(1..Len(RewriteKeys), MaxEntries) :
                    \A i, j \in 1..Len(s) : i # j => s[i] # s[j]}}

RewriteLines ==
    { TextLine(<<"a", "a", "a", ".", "t", "s">>),
      TextLine(<<"a", ".", "a", ".", "t", "s">>),
      TextLine(<<"a", "a", "a", "x", "t", "s">>),
      TextLine(<<"#", "E">>),
      TextLine(PathJoin(stream_1, PLAYLIST_NAME)),
      TextLine(PathJoin(stream_10, PLAYLIST_NAME)) }

ResultPaths ==
    { <<"a", ".", "t", "s">>, <<"b", ".", "t", "s">> }

ResultRecords ==
    [path : ResultPaths, ac : {NoId, 1, 2}, nc : {NoId, 1, 2}]

ValidateExts ==
    { <<>>, <<".">>, <<"m", "p", "4">>, MP4_EXT, <<".", "M", "P", "4">>,
      <<".", "M", "p", "4">>, <<".", "m", "p", "3">>, <<".", "m", "p", "4", "a">>,
      <<".", "m", "p", "4", "/">> }

ValidatePaths ==
    {s \o e : s \in SeqsUpTo({"a", ".", "/"}, MaxStem), e \in ValidateExts} \ {<<>>}

PipelineIdle ==
    /\ rootList = <<>>
    /\ dirList = <<>>
    /\ disk = <<>>
    /\ store = <<>>
    /\ calls = <<>>
    /\ blobMappings = <<>>
    /\ events = <<>>
    /\ pc = "idle"
    /\ masterBlobId = NoId
    /\ returned = <<>>
    /\ awaiting = <<>>
    /\ other = <<>>
    /\ resumedAt = "idle"
    /\ exitStatus = <<>>
    /\ stderr = <<>>
    /\ previous = <<>>

ChainIdle ==
    /\ videos = <<>>
    /\ epochTimestampMs = 0
    /\ saved = <<>>

TranscodeIdle ==
    /\ cwd = <<>>
    /\ fsDirs = {}
    /\ execLog = <<>>

\* hlsRef.current = null
NoHls == 0

\* the level -1 of hls.js: automatic selection; also useState<number>(-1)
AUTO_LEVEL == -1

PlayerIdle ==
    /\ hookState = "initial"
    /\ support = "none"
    /\ dataUrl = "none"
    /\ hlsRef = NoHls
    /\ instances = <<>>
    /\ cleanupOf = NoHls
    /\ qualities = <<>>
    /\ currentQuality = AUTO_LEVEL
    /\ levelWrites = <<>>

-----------------------------------------------------------------------------
(* The rewriting passes on their own *)

InitRewrite ==
    /\ PipelineIdle
    /\ ChainIdle
    /\ TranscodeIdle
    /\ PlayerIdle
    /\ fn = "pending"
    /\ arg \in [content : SeqsUpTo(RewriteLines, MaxLines),
                streamDir : {stream_1, stream_10},
                m : RewriteMappings]
    /\ ret = <<>>

ApplyUpdatePlaylistContent ==
    /\ fn = "pending"
    /\ fn' = "updatePlaylistContent"
    /\ ret' = UpdatePlaylistContent(arg.content, arg.streamDir, arg.m)
    /\ UNCHANGED <<pipelineVars, chainVars, playerVars, transcodeVars, arg>>

ApplyRewriteMaster ==
    /\ fn = "pending"
    /\ fn' = "rewriteMaster"
    /\ ret' = RewriteMaster(arg.content, arg.m)
    /\ UNCHANGED <<pipelineVars, chainVars, playerVars, transcodeVars, arg>>

NextRewrite ==
    \/ ApplyUpdatePlaylistContent
    \/ ApplyRewriteMaster

SpecRewrite == InitRewrite /\ [][NextRewrite]_vars

-----------------------------------------------------------------------------
(* The result parser of uploadToWalrus on its own *)

InitUpload ==
    /\ PipelineIdle
    /\ ChainIdle
    /\ TranscodeIdle
    /\ PlayerIdle
    /\ fn = "pending"
    /\ arg \in SeqsUpTo(ResultRecords, MaxResults)
    /\ ret = <<>>

ApplyParseResults ==
    /\ fn = "pending"
    /\ fn' = "uploadToWalrus"
    /\ ret' = ParseResults(arg)
    /\ UNCHANGED <<pipelineVars, chainVars, playerVars, transcodeVars, arg>>

NextUpload ==
    ApplyParseResults

SpecUpload == InitUpload /\ [][NextUpload]_vars

-----------------------------------------------------------------------------
(* validateInputFile on its own: arg is the path and whether it exists *)

InitValidate ==
    /\ PipelineIdle
    /\ ChainIdle
    /\ TranscodeIdle
    /\ PlayerIdle
    /\ fn = "pending"
    /\ arg \in [path : ValidatePaths, exists : BOOLEAN]
    /\ ret = "none"

ApplyValidateInputFile ==
    /\ fn = "pending"
    /\ fn' = "validateInputFile"
    /\ ret' = ValidateInputFile(arg.path, arg.exists)
    /\ UNCHANGED <<pipelineVars, chainVars, playerVars, transcodeVars, arg>>

NextValidate ==
    ApplyValidateInputFile

SpecValidate == InitValidate /\ [][NextValidate]_vars

-----------------------------------------------------------------------------
(* The conversion stage (ffmpeg.ts): validateInputFile, ensureOutputDir    *)
(* and runFFmpegConversion over a file system.  A resolved path is the     *)
(* sequence of its components below the root.                              *)

\* the components of a path: the pieces between its separators
RECURSIVE Components(_)
Components(p) ==
    IF p = <<>> THEN <<>>
    ELSE LET S == {k \in 1..Len(p) : p[k] = "/"}
             i == IF S = {} THEN Len(p) + 1 ELSE CHOOSE k \in S : \A j \in S : k <= j
         IN  (IF i = 1 THEN <<>> ELSE <<SubSeq(p, 1, i - 1)>>)
             \o Components(SubSeq(p, i + 1, Len(p)))

\* follow the components from a resolved directory: "." stays, ".." goes up
RECURSIVE Walk(_, _)
Walk(at, comps) ==
    IF comps = <<>> THEN at
    ELSE IF Head(comps) = <<".">> THEN Walk(at, Tail(comps))
    ELSE IF Head(comps) = <<".", ".">>
    THEN Walk(IF at = <<>> THEN at ELSE SubSeq(at, 1, Len(at) - 1), Tail(comps))
    ELSE Walk(Append(at, Head(comps)), Tail(comps))

\* the file a path names for a process whose working directory is `from`
Resolve(from, p) ==
    Walk(IF StartsWith(p, SEP) THEN <<>> ELSE from, Components(p))

\* a resolved directory and the directories above it
Ancestors(dir) ==
    {SubSeq(dir, 1, n) : n \in 0..Len(dir)}

\* the working directory the CLI is started in
CWD0 == <<<<"w">>>>

A_MP4 == <<"a", ".", "m", "p", "4">>

InputFiles ==
    { A_MP4, <<"/", "w", "/", "a", ".", "m", "p", "4">>, <<".", "/", "a", ".", "m", "p", "4">>,
      <<".", ".", "/", "a", ".", "m", "p", "4">>, <<"o", "/", "a", ".", "m", "p", "4">> }

OutputDirs ==
    { <<"o">>, <<".", "/", "o">>, <<"/", "w", "/", "o">>, <<".">>, <<"/", "t">> }

\* the places where a file a.mp4 may exist
FilePlaces ==
    { <<<<"w">>, A_MP4>>, <<<<"w">>, <<"o">>, A_MP4>>, <<A_MP4>>,
      <<<<"w">>, <<"o">>, <<"o">>, A_MP4>> }

\* lines 22-26: fs.mkdirSync(outputDir, { recursive: true }) unless it exists
EnsureOutputDir(dirs, from, outputDir) ==
    IF Resolve(from, outputDir) \in dirs THEN dirs
    ELSE dirs \cup Ancestors(Resolve(from, outputDir))

\* the exit status of ffmpeg: it fails when it cannot open its input
TranscoderExit(at, inputFile, files, exitOnInput) ==
    IF Resolve(at, inputFile) \in files THEN exitOnInput ELSE 1

\* lines 41-49, with the transcoder invoked before the working directory changes
RunFFmpegConversion_ExecBeforeChdir(inputFile, outputDir, from, dirs, files, exitOnInput) ==
    [cwd |-> Resolve(from, outputDir),
     execs |-> <<[cwd |-> from, input |-> inputFile,
                  exit |-> TranscoderExit(from, inputFile, files, exitOnInput)]>>,
     outcome |-> IF TranscoderExit(from, inputFile, files, exitOnInput) = 0
                 THEN "returned" ELSE "thrown"]

(* lines 31-50: process.chdir(outputDir), which throws when the directory  *)
(* does not exist, then one execSync of the command, which throws when the *)
(* transcoder exits non-zero; the catch block rethrows.                    *)
RunFFmpegConversion(inputFile, outputDir, from, dirs, files, exitOnInput) ==
    IF Resolve(from, outputDir) \notin dirs
    THEN [cwd |-> from, execs |-> <<>>, outcome |-> "thrown"]
    ELSE [cwd |-> Resolve(from, outputDir),
          execs |-> <<[cwd |-> Resolve(from, outputDir), input |-> inputFile,
                       exit |-> TranscoderExit(Resolve(from, outputDir), inputFile,
                                               files, exitOnInput)]>>,
          outcome |-> IF TranscoderExit(Resolve(from, outputDir), inputFile,
                                        files, exitOnInput) = 0
                      THEN "returned" ELSE "thrown"]

\* the order in which the CLI runs the conversion stage on its arguments
ConvertStage(stage) ==
    CASE stage = "pending" -> "validated"
      [] stage = "validated" -> "ensured"
      [] stage = "ensured" -> "converted"

InitTranscode ==
    /\ PipelineIdle
    /\ ChainIdle
    /\ PlayerIdle
    /\ cwd = CWD0
    /\ \E exists \in BOOLEAN :
        fsDirs = Ancestors(CWD0) \cup (IF exists THEN Ancestors(CWD0 \o <<<<"o">>>>) ELSE {})
    /\ execLog = <<>>
    /\ fn = "pending"
    /\ arg \in [inputFile : InputFiles, outputDir : OutputDirs,
                files : SUBSET FilePlaces, exitOnInput : {0, 1}]
    /\ ret = "none"

\* validateInputFile(inputFile)
ValidateStep ==
    /\ fn = "pending"
    /\ \E r \in {ValidateInputFile(arg.inputFile, Resolve(cwd, arg.inputFile) \in arg.files)} :
        /\ ret' = r
        /\ fn' = IF r = "accepted" THEN ConvertStage("pending") ELSE "failed"
    /\ UNCHANGED <<pipelineVars, chainVars, playerVars, transcodeVars, arg>>

\* ensureOutputDir(outputDir)
EnsureStep ==
    /\ fn = "validated"
    /\ fsDirs' = EnsureOutputDir(fsDirs, cwd, arg.outputDir)
    /\ fn' = ConvertStage("validated")
    /\ UNCHANGED <<pipelineVars, chainVars, playerVars, cwd, execLog, arg, ret>>

\* runFFmpegConversion({ inputFile, outputDir })
TranscodeStep ==
    /\ fn = "ensured"
    /\ \E r \in {RunFFmpegConversion(arg.inputFile, arg.outputDir, cwd, fsDirs,
                                      arg.files, arg.exitOnInput)} :
        /\ cwd' = r.cwd
        /\ execLog' = execLog \o r.execs
        /\ ret' = IF r.outcome = "returned" THEN "converted" ELSE "TranscodeFailed"
        /\ fn' = IF r.outcome = "returned" THEN ConvertStage("ensured") ELSE "failed"
    /\ UNCHANGED <<pipelineVars, chainVars, playerVars, fsDirs, arg>>

NextTranscode ==
    \/ ValidateStep
    \/ EnsureStep
    \/ TranscodeStep

SpecTranscode == InitTranscode /\ [][NextTranscode]_vars

-----------------------------------------------------------------------------
(* The ledger module video::video (video.move).  The module has one entry  *)
(* point, save_video; it defines no function that borrows a Video mutably, *)
(* unpacks it or transfers it, and the fields of a struct are accessible   *)
(* only inside its module, so save_video is the only step that touches a   *)
(* Video.                                                                  *)

Titles == {"t1", "t2"}

Descriptions == {"d1", "d2"}

ManifestUrls == {"u1", "u2"}

\* url::new_unsafe: the string is wrapped, unvalidated
UrlNewUnsafe(s) ==
    [url |-> s]

\* lines 22-28, with the epoch timestamp left at zero
NewVideo_NoTimestamp(id, title, description, master_manifest_url, ts) ==
    [id |-> id, title |-> title, description |-> description,
     master_manifest_url |-> UrlNewUnsafe(master_manifest_url), created_at |-> 0]

\* lines 22-28: the Video value
NewVideo(id, title, description, master_manifest_url, ts) ==
    [id |-> id, title |-> title, description |-> description,
     master_manifest_url |-> UrlNewUnsafe(master_manifest_url), created_at |-> ts]

\* transfer::share_object: the object becomes a shared object
ShareObject(obj) ==
    [obj |-> obj, owner |-> "Shared"]

\* object::new(ctx): an identifier no object has had
FreshUID(objects) ==
    Len(objects) + 1

InitVideo ==
    /\ PipelineIdle
    /\ TranscodeIdle
    /\ PlayerIdle
    /\ videos = <<>>
    /\ epochTimestampMs = 0
    /\ saved = <<>>
    /\ fn = "save_video"
    /\ arg = <<>>
    /\ ret = <<>>

\* lines 21-31: one transaction calling save_video
SaveVideo ==
    /\ Len(videos) < MaxVideos
    /\ \E title \in Titles, description \in Descriptions, url \in ManifestUrls :
        /\ videos' = Append(videos,
                ShareObject(NewVideo(FreshUID(videos), title, description, url,
                                     epochTimestampMs)))
        /\ saved' = Append(saved, [title |-> title, description |-> description,
                                   url |-> url, at |-> epochTimestampMs])
    /\ UNCHANGED <<pipelineVars, transcodeVars, playerVars, epochTimestampMs, fn, arg, ret>>

\* the network enters its next epoch
AdvanceEpoch ==
    /\ epochTimestampMs < MaxEpochMs
    /\ epochTimestampMs' = epochTimestampMs + 1
    /\ UNCHANGED <<pipelineVars, transcodeVars, playerVars, videos, saved, fn, arg, ret>>

NextVideo ==
    \/ SaveVideo
    \/ AdvanceEpoch

SpecVideo == InitVideo /\ [][NextVideo]_vars

-----------------------------------------------------------------------------
(* The useHlsPlayer hook (index.ts, lines 325-401): the effect keyed on    *)
(* [dataUrl, videoRef], its cleanup, the three event handlers it registers *)
(* on the Hls instance, and changeQuality.  hls.destroy() removes the      *)
(* instance's listeners, so no handler runs for a destroyed instance.      *)

PlayerUrls == {"u1", "u2"}

\* lines 331-347: what the effect finds in the browser
Supports == {"hlsjs", "native", "unsupported", "novideo"}

ERROR_TYPES == {"networkError", "mediaError", "otherError"}

\* lines 349-356: new Hls({...}), then loadSource(dataUrl)
NewHls(url) ==
    [url |-> url, destroyed |-> FALSE, currentLevel |-> AUTO_LEVEL, levels |-> 0]

\* hls.destroy()
Destroy(insts, i) ==
    [insts EXCEPT ![i].destroyed = TRUE]

\* lines 387-390: the cleanup the last effect returned, if it returned one
CleanupInstances ==
    IF cleanupOf = NoHls THEN instances ELSE Destroy(instances, cleanupOf)

CleanupRef ==
    IF cleanupOf = NoHls THEN hlsRef ELSE NoHls

\* lines 330-391: the effect, run after the cleanup of the one before it
RunEffect(url) ==
    IF support = "hlsjs"
    THEN /\ instances' = Append(CleanupInstances, NewHls(url))
         /\ hlsRef' = Len(instances) + 1
         /\ cleanupOf' = Len(instances) + 1
    ELSE /\ instances' = CleanupInstances
         /\ hlsRef' = CleanupRef
         /\ cleanupOf' = NoHls

\* the instances whose handlers can still be called
Live ==
    {i \in 1..Len(instances) : ~instances[i].destroyed}

InitPlayer ==
    /\ PipelineIdle
    /\ ChainIdle
    /\ TranscodeIdle
    /\ hookState = "initial"
    /\ support \in Supports
    /\ dataUrl \in PlayerUrls
    /\ hlsRef = NoHls
    /\ instances = <<>>
    /\ cleanupOf = NoHls
    /\ qualities = <<>>
    /\ currentQuality = AUTO_LEVEL
    /\ levelWrites = <<>>
    /\ fn = "useHlsPlayer"
    /\ arg = <<>>
    /\ ret = <<>>

\* the component mounts: the effect runs for the first time
Mount ==
    /\ hookState = "initial"
    /\ hookState' = "mounted"
    /\ RunEffect(dataUrl)
    /\ UNCHANGED <<pipelineVars, chainVars, transcodeVars, support, dataUrl, qualities,
                   currentQuality, levelWrites, fn, arg, ret>>

\* a render with another dataUrl: the cleanup runs, then the effect
ChangeUrl ==
    /\ hookState = "mounted"
    /\ Len(instances) < MaxInstances
    /\ \E url \in PlayerUrls \ {dataUrl} :
        /\ dataUrl' = url
        /\ RunEffect(url)
    /\ UNCHANGED <<pipelineVars, chainVars, transcodeVars, hookState, support, qualities,
                   currentQuality, levelWrites, fn, arg, ret>>

\* the component unmounts: the cleanup runs
Unmount ==
    /\ hookState = "mounted"
    /\ hookState' = "unmounted"
    /\ instances' = CleanupInstances
    /\ hlsRef' = CleanupRef
    /\ cleanupOf' = NoHls
    /\ UNCHANGED <<pipelineVars, chainVars, transcodeVars, support, dataUrl, qualities,
                   currentQuality, levelWrites, fn, arg, ret>>

\* lines 359-364: MANIFEST_PARSED
ManifestParsed ==
    \E i \in Live, n \in 1..MaxLevels :
        /\ instances[i].levels = 0
        /\ instances' = [instances EXCEPT ![i].levels = n]
        /\ qualities' = [k \in 1..n |-> k - 1]
        /\ currentQuality' = instances[i].currentLevel
        /\ UNCHANGED <<pipelineVars, chainVars, transcodeVars, hookState, support, dataUrl,
                       hlsRef, cleanupOf, levelWrites, fn, arg, ret>>

\* lines 366-368: LEVEL_SWITCHED
LevelSwitched ==
    \E i \in Live :
        \E level \in 0..(instances[i].levels - 1) :
            /\ instances' = [instances EXCEPT ![i].currentLevel = level]
            /\ currentQuality' = level
            /\ UNCHANGED <<pipelineVars, chainVars, transcodeVars, hookState, support,
                           dataUrl, hlsRef, cleanupOf, qualities, levelWrites, fn, arg, ret>>

(* lines 370-385: ERROR.  A fatal network error restarts the load, a fatal *)
(* media error recovers, any other fatal error destroys the instance; the  *)
(* handler leaves hlsRef.current as it is.                                 *)
HlsError ==
    \E i \in Live, fatal \in BOOLEAN, type \in ERROR_TYPES :
        /\ instances' = IF fatal /\ type \notin {"networkError", "mediaError"}
                        THEN Destroy(instances, i)
                        ELSE instances
        /\ UNCHANGED <<pipelineVars, chainVars, transcodeVars, hookState, support, dataUrl,
                       hlsRef, cleanupOf, qualities, currentQuality, levelWrites,
                       fn, arg, ret>>

(* lines 393-398: changeQuality(levelIndex).  With hlsRef.current null the *)
(* call does nothing.  On an instance that has been destroyed the          *)
(* assignment to currentLevel may throw, and then setCurrentQuality is not *)
(* reached.                                                                *)
ChangeQuality ==
    /\ hookState = "mounted"
    /\ Len(levelWrites) < MaxWrites
    /\ \E levelIndex \in AUTO_LEVEL..(MaxLevels - 1) :
        IF hlsRef = NoHls
        THEN UNCHANGED <<instances, currentQuality, levelWrites>>
        ELSE /\ levelWrites' = Append(levelWrites,
                    [instance |-> hlsRef, level |-> levelIndex,
                     destroyed |-> instances[hlsRef].destroyed])
             /\ IF instances[hlsRef].destroyed
                THEN /\ currentQuality' \in {currentQuality, levelIndex}
                     /\ UNCHANGED instances
                ELSE /\ currentQuality' = levelIndex
                     /\ instances' = [instances EXCEPT ![hlsRef].currentLevel = levelIndex]
    /\ UNCHANGED <<pipelineVars, chainVars, transcodeVars, hookState, support, dataUrl,
                   hlsRef, cleanupOf, qualities, fn, arg, ret>>

NextPlayer ==
    \/ Mount
    \/ ChangeUrl
    \/ Unmount
    \/ ManifestParsed
    \/ LevelSwitched
    \/ HlsError
    \/ ChangeQuality

SpecPlayer == InitPlayer /\ [][NextPlayer]_vars

-----------------------------------------------------------------------------
(* The output directory the pipeline runs on *)

\* path.resolve(assetsDir): some absolute path
ASSETS_PATH == <<"/", "o", "u", "t">>

\* path.join(assetsPath, "temp_master.m3u8"), the path the master is uploaded under
TempMasterPath == PathJoin(ASSETS_PATH, TEMP_MASTER_NAME)

\* the retention period of every batch: `--epochs 2`
STORE_EPOCHS == 2

DIGITS == <<"0", "1", "2", "3", "4", "5", "6", "7", "8", "9">>

\* the i-th segment the transcoder names in a rendition directory
SegName(i) ==
    <<"d", DIGITS[i], ".", "t", "s">>

\* a directory that is no rendition directory
misc == <<"m", "i", "s", "c">>

RootEntry(name, isDir) ==
    [name |-> name, isDir |-> isDir]

StreamOrders ==
    { <<>>, <<stream_1>>, <<stream_10>>,
      <<stream_1, stream_10>>, <<stream_10, stream_1>> }

\* the listings of the output root: the directories in some order, then master.m3u8
RootListings ==
    { pre \o [i \in 1..Len(o) |-> RootEntry(o[i], TRUE)]
          \o <<RootEntry(MASTER_NAME, FALSE)>> :
        pre \in {<<>>, <<RootEntry(misc, TRUE)>>}, o \in StreamOrders }

\* the segment files of one rendition directory, as the listing orders them
SegListings ==
    UNION { { [i \in 1..n |-> SegName(i)], [i \in 1..n |-> SegName(n + 1 - i)] } :
            n \in 0..MaxSegs }

\* the listings of a rendition directory: its segments, with or without a playlist
DirListings ==
    { l \o tail : l \in SegListings, tail \in {<<>>, <<PLAYLIST_NAME>>} }

HEADER == <<"#", "E">>

\* the sub-manifest the transcoder writes for n segments
TranscodedPlaylist(n) ==
    <<TextLine(HEADER)>> \o [i \in 1..n |-> TextLine(SegName(i))]

IsSegmentName(f) ==
    EndsWith(f, TS_EXT)

NumSegments(listing) ==
    Cardinality({i \in 1..Len(listing) : IsSegmentName(listing[i])})

HasPlaylist(listing) ==
    \E i \in 1..Len(listing) : listing[i] = PLAYLIST_NAME

\* the master manifest the transcoder writes: one line per rendition with a playlist
TranscodedMaster(dl) ==
    <<TextLine(HEADER)>>
    \o (IF stream_1 \in DOMAIN dl /\ HasPlaylist(dl[stream_1])
        THEN <<TextLine(PathJoin(stream_1, PLAYLIST_NAME))>> ELSE <<>>)
    \o (IF stream_10 \in DOMAIN dl /\ HasPlaylist(dl[stream_10])
        THEN <<TextLine(PathJoin(stream_10, PLAYLIST_NAME))>> ELSE <<>>)

\* the files on disk for the listings dl
DiskOf(dl) ==
    LET paths == {MASTER_NAME} \cup
                 UNION {{PathJoin(d, dl[d][i]) : i \in 1..Len(dl[d])} : d \in DOMAIN dl}
    IN  [p \in paths |->
            IF p = MASTER_NAME THEN TranscodedMaster(dl)
            ELSE IF IsSegmentName(Basename(p)) THEN SegmentBytes(p)
            ELSE TranscodedPlaylist(NumSegments(dl[Dirname(p)]))]

-----------------------------------------------------------------------------
(* Enumeration of the assets *)

\* lines 82-90: the directories of the listing whose name starts with "stream_"
NamesOf(entries) ==
    [i \in 1..Len(entries) |-> entries[i].name]

GetStreamDirectories(listing) ==
    SelectSeq(NamesOf(SelectSeq(listing, LAMBDA e : e.isDir)),
              LAMBDA dir : StartsWith(dir, STREAM_PREFIX))

\* lines 99-115: the .ts files of every stream directory, as relative paths
RECURSIVE CollectSegmentFiles(_, _)
CollectSegmentFiles(streamDirs, dl) ==
    IF streamDirs = <<>> THEN <<>>
    ELSE LET segs == SelectSeq(dl[Head(streamDirs)], LAMBDA f : EndsWith(f, TS_EXT))
         IN  [i \in 1..Len(segs) |-> PathJoin(Head(streamDirs), segs[i])]
             \o CollectSegmentFiles(Tail(streamDirs), dl)

-----------------------------------------------------------------------------
(* The storage client: `walrus store <files> --epochs 2 --json`.  It is    *)
(* content-addressed: bytes already stored are reported alreadyCertified   *)
(* under their identifier, new bytes are stored and reported newlyCreated. *)
(* For some records it may report neither variant.  The invocation may     *)
(* also exit non-zero or print what is no structured result.               *)

IndexOf(st, content) ==
    IF \E i \in 1..Len(st) : st[i] = content
    THEN CHOOSE i \in 1..Len(st) : st[i] = content
    ELSE 0

RECURSIVE ClientStoreFrom(_, _, _, _, _, _)
ClientStoreFrom(st, results, paths, contents, unresolved, i) ==
    IF i > Len(paths) THEN [store |-> st, results |-> results]
    ELSE IF i \in unresolved
    THEN ClientStoreFrom(st, Append(results, [path |-> paths[i], ac |-> NoId, nc |-> NoId]),
                         paths, contents, unresolved, i + 1)
    ELSE IF IndexOf(st, contents[i]) # 0
    THEN ClientStoreFrom(st, Append(results, [path |-> paths[i],
                                              ac |-> IndexOf(st, contents[i]), nc |-> NoId]),
                         paths, contents, unresolved, i + 1)
    ELSE ClientStoreFrom(Append(st, contents[i]),
                         Append(results, [path |-> paths[i], ac |-> NoId,
                                          nc |-> Len(st) + 1]),
                         paths, contents, unresolved, i + 1)

ClientStore(st, paths, contents, unresolved) ==
    ClientStoreFrom(st, <<>>, paths, contents, unresolved, 1)

(* What one invocation can come to.  "records": it exits 0 and prints one   *)
(* record per file, any of them without a variant.  "empty_array",         *)
(* "empty_string": it exits 0 and prints `[]` or `""`, which JSON.parse    *)
(* accepts and the for-of loop of line 58 iterates zero times; the second  *)
(* is no list of records.  "unparseable": it exits 0 and prints what       *)
(* JSON.parse or the loop throws on.  "none": it exits non-zero, execSync  *)
(* throws.                                                                 *)
ClientOutcomes(n) ==
    [status : {"ok"}, output : {"records"}, unresolved : SUBSET (1..n)]
    \cup [status : {"ok"}, output : {"empty_array"}, unresolved : {{}}]
    \cup [status : {"bad_output"}, output : {"empty_string", "unparseable"},
          unresolved : {{}}]
    \cup [status : {"exit_nonzero"}, output : {"none"}, unresolved : {{}}]

\* lines 51-58: execSync, JSON.parse or the loop throws
Throws(o) ==
    o.output \in {"unparseable", "none"}

\* the storage network and the records `results` is parsed to
ClientResult(st, paths, contents, o) ==
    IF o.output = "records"
    THEN ClientStore(st, paths, contents, o.unresolved)
    ELSE [store |-> st, results |-> <<>>]

\* one invocation, as the log keeps it
Call(paths, contents, o, results) ==
    [files |-> paths, contents |-> contents, epochs |-> STORE_EPOCHS,
     status |-> o.status, output |-> o.output, results |-> results]

\* lines 69-73: the promise uploadToWalrus returns, resolved with the mapping or rejected
Settled(o, results, playlistMappings) ==
    [rejected |-> Throws(o), value |-> ParseResults(results),
     playlistMappings |-> playlistMappings]

-----------------------------------------------------------------------------
(* uploadHLSAssetsToWalrus.  uploadToWalrus is an async function whose     *)
(* body is synchronous: the client has run when it returns its promise,    *)
(* and the caller's `await` (lines 278, 179, 226) resumes in a later turn  *)
(* of the event loop.  Each action below is what runs in one turn, or a    *)
(* part of it.                                                             *)

Ev(name, m) ==
    [ev |-> name, map |-> m]

\* the order of the stages of uploadHLSAssetsToWalrus
NextStage_MasterFirst(stage) ==
    CASE stage = "segments" -> "master"
      [] stage = "master" -> "playlists"
      [] stage = "playlists" -> "return"

NextStage(stage) ==
    CASE stage = "segments" -> "playlists"
      [] stage = "playlists" -> "master"
      [] stage = "master" -> "return"

\* where a failed uploadToWalrus leaves the run: the error is rethrown to the caller
AfterFailure(stage) ==
    "thrown"

Init ==
    /\ rootList \in RootListings
    /\ dirList \in [{rootList[i].name : i \in {j \in 1..Len(rootList) :
                        rootList[j].isDir /\ rootList[j].name # misc}} -> DirListings]
    /\ disk = DiskOf(dirList)
    /\ store = <<>>
    /\ calls = <<>>
    /\ blobMappings = <<>>
    /\ events = <<>>
    /\ pc = "segments"
    /\ masterBlobId = NoId
    /\ returned = <<>>
    /\ awaiting = <<>>
    /\ other = <<>>
    /\ resumedAt = "segments"
    /\ exitStatus = <<>>
    /\ stderr = <<>>
    /\ previous = <<>>
    /\ ChainIdle
    /\ TranscodeIdle
    /\ PlayerIdle
    /\ fn = "run"
    /\ arg = <<>>
    /\ ret = <<>>

\* lines 267-278: enumerate the segments and hand them to the client, up to the await
UploadSegments ==
    /\ pc = "segments"
    /\ \E files \in {CollectSegmentFiles(GetStreamDirectories(rootList), dirList)} :
       \E contents \in {[i \in 1..Len(files) |-> disk[files[i]]]} :
       \E o \in ClientOutcomes(Len(files)) :
       \E r \in {ClientResult(store, files, contents, o)} :
            /\ calls' = Append(calls, Call(files, contents, o, r.results))
            /\ store' = r.store
            /\ awaiting' = <<Settled(o, r.results, <<>>)>>
            /\ events' = Append(events, Ev("uploadSegments", blobMappings))
            /\ pc' = "await_segments"
    /\ UNCHANGED <<rootList, dirList, disk, blobMappings, masterBlobId, returned,
                   fn, arg, ret, concVars, mainVars, chainVars, playerVars, transcodeVars>>

\* lines 278-279: the await resumes; merge the segments' identifiers, or rethrow
MergeSegments ==
    /\ pc = "await_segments"
    /\ IF awaiting[1].rejected
       THEN /\ pc' = AfterFailure("segments")
            /\ UNCHANGED <<blobMappings, events>>
       ELSE \E merged \in {ObjectAssign(blobMappings, awaiting[1].value)} :
            /\ blobMappings' = merged
            /\ events' = Append(events, Ev("mergeSegments", merged))
            /\ pc' = NextStage("segments")
    /\ awaiting' = <<>>
    /\ UNCHANGED <<rootList, dirList, disk, store, calls, masterBlobId, returned,
                   fn, arg, ret, concVars, mainVars, chainVars, playerVars, transcodeVars>>

\* the original a temporary path stands for
InPlacePath(path) ==
    IF Basename(path) = TEMP_PLAYLIST_NAME THEN PathJoin(Dirname(path), PLAYLIST_NAME)
    ELSE IF path = TEMP_MASTER_NAME THEN MASTER_NAME
    ELSE path

\* lines 168 and 224, with the rewritten text written over the original manifest
WriteFiles_InPlace(d, paths, contents) ==
    [p \in DOMAIN d \cup {InPlacePath(paths[i]) : i \in 1..Len(paths)} |->
        IF \E i \in 1..Len(paths) : InPlacePath(paths[i]) = p
        THEN contents[CHOOSE i \in 1..Len(paths) : InPlacePath(paths[i]) = p]
        ELSE d[p]]

\* fs.writeFileSync(path.join(assetsPath, paths[i]), contents[i]) for every i
WriteFiles(d, paths, contents) ==
    [p \in DOMAIN d \cup {paths[i] : i \in 1..Len(paths)} |->
        IF \E i \in 1..Len(paths) : paths[i] = p
        THEN contents[CHOOSE i \in 1..Len(paths) : paths[i] = p]
        ELSE d[p]]

\* fs.unlinkSync(path.join(assetsPath, path)) of a file that exists
Unlink(d, path) ==
    [p \in DOMAIN d \ {path} |-> d[p]]

(* lines 179 and 226: uploadToWalrus throws out of the function, past the  *)
(* unlinkSync calls of lines 191 and 229; the files written stay           *)
DiskAfterFailedUpload(written, tempPaths) ==
    written

\* line 183, with the temporary path itself taken as the key
OriginalPathOf_TempKey(playlistMappings, tempPath) ==
    tempPath

\* line 183: playlistMappings[tempPath], for a temporary path that was recorded
OriginalPathOf(playlistMappings, tempPath) ==
    playlistMappings[CHOOSE k \in 1..Len(playlistMappings) :
                        playlistMappings[k].temp = tempPath].original

(* lines 182-194: map the temporary paths back and delete the temporary    *)
(* files that exist                                                        *)
RECURSIVE MergePlaylistsFrom(_, _, _, _)
MergePlaylistsFrom(st, playlistBlobMappings, playlistMappings, i) ==
    IF i > Len(playlistBlobMappings) THEN st
    ELSE IF \A k \in 1..Len(playlistMappings) :
                playlistMappings[k].temp # playlistBlobMappings[i].path
    THEN MergePlaylistsFrom(st, playlistBlobMappings, playlistMappings, i + 1)
    ELSE MergePlaylistsFrom(
            [map |-> Assign(st.map,
                            OriginalPathOf(playlistMappings, playlistBlobMappings[i].path),
                            playlistBlobMappings[i].id),
             disk |-> Unlink(st.disk, playlistBlobMappings[i].path)],
            playlistBlobMappings, playlistMappings, i + 1)

\* line 177, with the batch uploaded even when it is empty
ShouldUploadPlaylists_Always(allPlaylistFiles) ==
    TRUE

\* line 177: the sub-manifest batch is uploaded only when it is not empty
ShouldUploadPlaylists(allPlaylistFiles) ==
    Len(allPlaylistFiles) > 0

(* lines 282 and 152-179: processAndUploadPlaylists up to its await, or to *)
(* its return when no rendition directory holds playlist.m3u8              *)
ProcessAndUploadPlaylists ==
    /\ pc = "playlists"
    /\ \E withPlaylist \in {SelectSeq(GetStreamDirectories(rootList),
                               LAMBDA d : PathJoin(d, PLAYLIST_NAME) \in DOMAIN disk)} :
       \E allPlaylistFiles \in {[i \in 1..Len(withPlaylist) |->
                                   PathJoin(withPlaylist[i], TEMP_PLAYLIST_NAME)]} :
       \E playlistMappings \in {[i \in 1..Len(withPlaylist) |->
                                   [temp |-> allPlaylistFiles[i],
                                    original |-> PathJoin(withPlaylist[i], PLAYLIST_NAME)]]} :
       \E contents \in {[i \in 1..Len(withPlaylist) |->
                           UpdatePlaylistContent(disk[PathJoin(withPlaylist[i], PLAYLIST_NAME)],
                                                 withPlaylist[i], blobMappings)]} :
       \E written \in {WriteFiles(disk, allPlaylistFiles, contents)} :
            IF ~ShouldUploadPlaylists(allPlaylistFiles)
            THEN /\ events' = Append(events, Ev("rewriteSubs", blobMappings))
                 /\ pc' = NextStage("playlists")
                 /\ UNCHANGED <<disk, store, calls, awaiting>>
            ELSE \E o \in ClientOutcomes(Len(allPlaylistFiles)) :
                 \E r \in {ClientResult(store, allPlaylistFiles, contents, o)} :
                    /\ disk' = written
                    /\ calls' = Append(calls, Call(allPlaylistFiles, contents, o, r.results))
                    /\ store' = r.store
                    /\ awaiting' = <<Settled(o, r.results, playlistMappings)>>
                    /\ events' = events \o <<Ev("rewriteSubs", blobMappings),
                                             Ev("uploadSubs", blobMappings)>>
                    /\ pc' = "await_playlists"
    /\ UNCHANGED <<rootList, dirList, blobMappings, masterBlobId, returned, fn, arg, ret,
                   concVars, mainVars, chainVars, playerVars, transcodeVars>>

(* lines 179-197: the await resumes; map the temporary paths back and      *)
(* delete the temporary files, or rethrow                                  *)
MergePlaylists ==
    /\ pc = "await_playlists"
    /\ IF awaiting[1].rejected
       THEN /\ disk' = DiskAfterFailedUpload(disk,
                            [i \in 1..Len(awaiting[1].playlistMappings) |->
                                awaiting[1].playlistMappings[i].temp])
            /\ pc' = AfterFailure("playlists")
            /\ UNCHANGED <<blobMappings, events>>
       ELSE \E after \in {MergePlaylistsFrom([map |-> blobMappings, disk |-> disk],
                                             awaiting[1].value,
                                             awaiting[1].playlistMappings, 1)} :
            /\ blobMappings' = after.map
            /\ disk' = after.disk
            /\ events' = Append(events, Ev("mergeSubs", after.map))
            /\ pc' = NextStage("playlists")
    /\ awaiting' = <<>>
    /\ UNCHANGED <<rootList, dirList, store, calls, masterBlobId, returned, fn, arg, ret,
                   concVars, mainVars, chainVars, playerVars, transcodeVars>>

\* lines 285 and 207-226: processAndUploadMasterPlaylist up to its await
ProcessAndUploadMasterPlaylist ==
    /\ pc = "master"
    /\ \E masterContent \in {RewriteMaster(disk[MASTER_NAME], blobMappings)} :
       \E o \in ClientOutcomes(1) :
       \E r \in {ClientResult(store, <<TempMasterPath>>, <<masterContent>>, o)} :
            /\ disk' = WriteFiles(disk, <<TEMP_MASTER_NAME>>, <<masterContent>>)
            /\ calls' = Append(calls, Call(<<TempMasterPath>>, <<masterContent>>,
                                           o, r.results))
            /\ store' = r.store
            /\ awaiting' = <<Settled(o, r.results, <<>>)>>
            /\ events' = events \o <<Ev("rewriteMaster", blobMappings),
                                     Ev("uploadMaster", blobMappings)>>
            /\ pc' = "await_master"
    /\ UNCHANGED <<rootList, dirList, blobMappings, masterBlobId, returned, fn, arg, ret,
                   concVars, mainVars, chainVars, playerVars, transcodeVars>>

(* lines 226-232: the await resumes; delete temp_master.m3u8, which throws *)
(* when the file is not there, and return the identifier; or rethrow       *)
UnlinkMaster ==
    /\ pc = "await_master"
    /\ IF awaiting[1].rejected
       THEN /\ disk' = DiskAfterFailedUpload(disk, <<TEMP_MASTER_NAME>>)
            /\ pc' = AfterFailure("master")
            /\ UNCHANGED masterBlobId
       ELSE IF TEMP_MASTER_NAME \notin DOMAIN disk
       THEN /\ pc' = "thrown"
            /\ UNCHANGED <<disk, masterBlobId>>
       ELSE /\ disk' = Unlink(disk, TEMP_MASTER_NAME)
            /\ masterBlobId' = Lookup(awaiting[1].value, TempMasterPath)
            /\ pc' = NextStage("master")
    /\ awaiting' = <<>>
    /\ UNCHANGED <<rootList, dirList, store, calls, blobMappings, events, returned,
                   fn, arg, ret, concVars, mainVars, chainVars, playerVars, transcodeVars>>

\* lines 287-294: the result of a run without error
Return ==
    /\ pc = "return"
    /\ returned' = <<[masterBlobId |-> masterBlobId, blobMappings |-> blobMappings]>>
    /\ pc' = "done"
    /\ UNCHANGED <<rootList, dirList, disk, store, calls, blobMappings, events,
                   masterBlobId, awaiting, fn, arg, ret,
                   concVars, mainVars, chainVars, playerVars, transcodeVars>>

(* main(), lines 298-310.  Neither path sets process.exitCode or calls     *)
(* process.exit, and the rejection is caught: once main() has settled the  *)
(* event loop is empty and the process ends with the default status.       *)
EXIT_DEFAULT == 0

ERROR_UPLOADING == "Error uploading HLS assets:"

\* lines 300-306: the run resolved, main prints the summary with console.log
MainSummary ==
    /\ pc = "done"
    /\ exitStatus = <<>>
    /\ exitStatus' = <<EXIT_DEFAULT>>
    /\ UNCHANGED <<rootList, dirList, disk, store, calls, blobMappings, events, pc,
                   masterBlobId, returned, awaiting, concVars, stderr, previous,
                   chainVars, playerVars, transcodeVars, fn, arg, ret>>

\* lines 307-309: the run rejected, main catches the error and prints it
MainCatch ==
    /\ pc = "thrown"
    /\ exitStatus = <<>>
    /\ stderr' = Append(stderr, ERROR_UPLOADING)
    /\ exitStatus' = <<EXIT_DEFAULT>>
    /\ UNCHANGED <<rootList, dirList, disk, store, calls, blobMappings, events, pc,
                   masterBlobId, returned, awaiting, concVars, previous,
                   chainVars, playerVars, transcodeVars, fn, arg, ret>>

Next ==
    \/ UploadSegments
    \/ MergeSegments
    \/ ProcessAndUploadPlaylists
    \/ MergePlaylists
    \/ ProcessAndUploadMasterPlaylist
    \/ UnlinkMaster
    \/ Return
    \/ MainSummary
    \/ MainCatch

Spec == Init /\ [][Next]_vars

-----------------------------------------------------------------------------
(* A second run of main() over the same, unchanged output directory.  The  *)
(* directory may hold segment files of any name, and a listing may return  *)
(* its entries in another order the second time.                           *)

AAA_TS == <<"a", "a", "a", ".", "t", "s">>

A_A_TS == <<"a", ".", "a", ".", "t", "s">>

\* the segment names of the directories that are run twice, in playlist order
RerunNames == <<SegName(1), AAA_TS, A_A_TS>>

\* the orders of the sequence s
Orders(s) ==
    {[i \in 1..Len(s) |-> s[p[i]]] :
        p \in {q \in [1..Len(s) -> 1..Len(s)] : \A i, j \in 1..Len(s) : i # j => q[i] # q[j]}}

\* the listings of a rendition directory: at most MaxSegs segments in any order, and the playlist
RerunDirListings ==
    UNION {Orders(SelectSeq(RerunNames, LAMBDA n : n \in N)) :
            N \in {M \in SUBSET {RerunNames[i] : i \in 1..Len(RerunNames)} :
                        Cardinality(M) <= MaxSegs}}

\* the sub-manifest of a rendition directory: its segments in playlist order
PlaylistOfListing(listing) ==
    <<TextLine(HEADER)>>
    \o [i \in 1..Len(SelectSeq(RerunNames, LAMBDA n : \E k \in 1..Len(listing) : listing[k] = n)) |->
            TextLine(SelectSeq(RerunNames, LAMBDA n : \E k \in 1..Len(listing) : listing[k] = n)[i])]

\* the files on disk for the listings dl of such a directory
RerunDiskOf(dl) ==
    LET paths == {MASTER_NAME} \cup
                 UNION {{PathJoin(d, dl[d][i]) : i \in 1..Len(dl[d])} : d \in DOMAIN dl}
    IN  [p \in paths |->
            IF p = MASTER_NAME THEN TranscodedMaster(dl)
            ELSE IF IsSegmentName(Basename(p)) THEN SegmentBytes(p)
            ELSE PlaylistOfListing(dl[Dirname(p)])]

\* the listing with its segment files in another order
SegmentOrders(listing) ==
    {l \in Orders(listing) :
        \A i \in 1..Len(listing) : ~IsSegmentName(listing[i]) => l[i] = listing[i]}

\* the root listing with its directories in another order
DirectoryOrders(listing) ==
    {l \in Orders(listing) :
        \A i \in 1..Len(listing) : ~listing[i].isDir => l[i] = listing[i]}

\* every record of every invocation of the run got an identifier
FullyResolved ==
    \A c \in 1..Len(calls) :
        /\ calls[c].status = "ok"
        /\ Len(calls[c].results) = Len(calls[c].files)
        /\ \A j \in 1..Len(calls[c].results) : Resolved(calls[c].results[j])

\* what a run produced: the uploaded manifests, the mapping, the master identifier
RunResult ==
    [masterBlobId |-> masterBlobId,
     blobMappings |-> {<<blobMappings[i].path, blobMappings[i].id>> : i \in 1..Len(blobMappings)},
     manifests |-> UNION {{<<calls[c].files[j], calls[c].contents[j]>> :
                                j \in 1..Len(calls[c].files)} :
                          c \in {k \in 1..Len(calls) :
                                    \A j \in 1..Len(calls[k].files) : IsTempPath(calls[k].files[j])}}]

InitRerun ==
    /\ rootList \in {[i \in 1..Len(o) |-> RootEntry(o[i], TRUE)]
                        \o <<RootEntry(MASTER_NAME, FALSE)>> :
                      o \in {<<stream_1>>, <<stream_1, stream_10>>}}
    /\ dirList \in [{rootList[i].name : i \in {j \in 1..Len(rootList) : rootList[j].isDir}}
                        -> {l \o <<PLAYLIST_NAME>> : l \in RerunDirListings}]
    /\ disk = RerunDiskOf(dirList)
    /\ store = <<>>
    /\ calls = <<>>
    /\ blobMappings = <<>>
    /\ events = <<>>
    /\ pc = "segments"
    /\ masterBlobId = NoId
    /\ returned = <<>>
    /\ awaiting = <<>>
    /\ other = <<>>
    /\ resumedAt = "segments"
    /\ exitStatus = <<>>
    /\ stderr = <<>>
    /\ previous = <<>>
    /\ ChainIdle
    /\ TranscodeIdle
    /\ PlayerIdle
    /\ fn = "run"
    /\ arg = <<>>
    /\ ret = <<>>

(* lines 316-318: main() is started again, after a run in which every file *)
(* got an identifier; the directory and the storage network are as the     *)
(* first run left them, the listings may come in another order.            *)
Rerun ==
    /\ pc = "done"
    /\ exitStatus # <<>>
    /\ previous = <<>>
    /\ FullyResolved
    /\ previous' = <<RunResult>>
    /\ rootList' \in DirectoryOrders(rootList)
    /\ dirList' \in [DOMAIN dirList -> UNION {SegmentOrders(dirList[d]) : d \in DOMAIN dirList}]
    /\ \A d \in DOMAIN dirList : dirList'[d] \in SegmentOrders(dirList[d])
    /\ calls' = <<>>
    /\ blobMappings' = <<>>
    /\ events' = <<>>
    /\ pc' = "segments"
    /\ masterBlobId' = NoId
    /\ returned' = <<>>
    /\ awaiting' = <<>>
    /\ exitStatus' = <<>>
    /\ stderr' = <<>>
    /\ UNCHANGED <<disk, store, concVars, chainVars, playerVars, transcodeVars, fn, arg, ret>>

NextRerun ==
    \/ Next
    \/ Rerun

SpecRerun == InitRerun /\ [][NextRerun]_vars

-----------------------------------------------------------------------------
(* Two calls of the exported uploadHLSAssetsToWalrus (line 313) on one     *)
(* output directory, on one event loop.  A call runs until it reaches an   *)
(* `await`; its continuation is queued behind the other call's, so the two *)
(* take turns.  The variables pc, blobMappings, events, awaiting,          *)
(* masterBlobId and returned are those of the call that has the turn;      *)
(* other holds them for the call that waits.  The directory, the storage   *)
(* network and the client's log are shared.                                *)

\* the locals of the call that has the turn
Frame ==
    [pc |-> pc, blobMappings |-> blobMappings, events |-> events, awaiting |-> awaiting,
     masterBlobId |-> masterBlobId, returned |-> returned]

\* the positions at which a call has given the turn back: lines 278, 179, 282, 226, 285, 300
YieldPoints ==
    {"await_segments", "await_playlists", "master", "await_master", "return",
     "done", "thrown"}

\* the call has resolved or rejected
Finished(position) ==
    position \in {"done", "thrown"}

\* the call that has the turn may go on: nothing else is queued, or it has not run this turn
CanRun ==
    IF other = <<>> THEN TRUE
    ELSE Finished(other[1].pc) \/ pc = resumedAt \/ pc \notin YieldPoints

\* a caller starts a second call while the first waits at an await, or after it has ended
StartSecondCall ==
    /\ other = <<>>
    /\ pc \in YieldPoints
    /\ other' = <<Frame>>
    /\ pc' = "segments"
    /\ blobMappings' = <<>>
    /\ events' = <<>>
    /\ awaiting' = <<>>
    /\ masterBlobId' = NoId
    /\ returned' = <<>>
    /\ resumedAt' = "segments"
    /\ UNCHANGED <<rootList, dirList, disk, store, calls, mainVars, chainVars,
                   transcodeVars, playerVars, fn, arg, ret>>

\* the event loop runs the continuation of the call that waits
SwitchCall ==
    /\ other # <<>>
    /\ ~Finished(other[1].pc)
    /\ pc \in YieldPoints
    /\ pc # resumedAt
    /\ other' = <<Frame>>
    /\ pc' = other[1].pc
    /\ blobMappings' = other[1].blobMappings
    /\ events' = other[1].events
    /\ awaiting' = other[1].awaiting
    /\ masterBlobId' = other[1].masterBlobId
    /\ returned' = other[1].returned
    /\ resumedAt' = other[1].pc
    /\ UNCHANGED <<rootList, dirList, disk, store, calls, mainVars, chainVars,
                   transcodeVars, playerVars, fn, arg, ret>>

\* one step of the call that has the turn
StepCall ==
    /\ CanRun
    /\ \/ UploadSegments
       \/ MergeSegments
       \/ ProcessAndUploadPlaylists
       \/ MergePlaylists
       \/ ProcessAndUploadMasterPlaylist
       \/ UnlinkMaster
       \/ Return

\* an output directory with one rendition: its playlist and up to MaxSegs segments
InitConcurrent ==
    /\ Init
    /\ rootList = <<RootEntry(stream_1, TRUE), RootEntry(MASTER_NAME, FALSE)>>
    /\ HasPlaylist(dirList[stream_1])

NextConcurrent ==
    \/ StepCall
    \/ StartSecondCall
    \/ SwitchCall

SpecConcurrent == InitConcurrent /\ [][NextConcurrent]_vars

-----------------------------------------------------------------------------
(* Properties of a run of uploadHLSAssetsToWalrus (Spec) *)

\* the invocations that stored segments, sub-manifests, the master manifest
SegmentCalls ==
    {i \in 1..Len(calls) :
        \A j \in 1..Len(calls[i].files) : EndsWith(calls[i].files[j], TS_EXT)}

SubManifestCalls ==
    {i \in 1..Len(calls) :
        /\ calls[i].files # <<>>
        /\ \A j \in 1..Len(calls[i].files) :
                EndsWith(calls[i].files[j], SEP \o TEMP_PLAYLIST_NAME)}

MasterCalls ==
    {i \in 1..Len(calls) : calls[i].files = <<TempMasterPath>>}

\* the rendition directories of the output directory
RenditionDirs ==
    DOMAIN dirList

\* the identifiers of a mapping
IdsOf(m) ==
    {m[i].id : i \in 1..Len(m)}

\* line is the bare name of a segment file of rendition directory d
IsLocalSegmentRef(line, d) ==
    /\ line.k = "txt"
    /\ \E i \in 1..Len(dirList[d]) :
            EndsWith(dirList[d][i], TS_EXT) /\ line.s = dirList[d][i]

\* line is the local path of the sub-manifest of some rendition directory
IsLocalPlaylistRef(line) ==
    /\ line.k = "txt"
    /\ \E d \in RenditionDirs : line.s = PathJoin(d, PLAYLIST_NAME)

(* C1: after a run that completes without error, every reference in each   *)
(* uploaded sub-manifest and in the uploaded master manifest resolves to   *)
(* an entry of the blob mapping: no uploaded manifest holds a line that is *)
(* still a local segment filename or a local <dir>/playlist.m3u8 path.     *)
C1_ReferencesResolved ==
    pc = "done" =>
        /\ \A c \in SubManifestCalls : \A j \in 1..Len(calls[c].files) :
            \A l \in 1..Len(calls[c].contents[j]) :
                LET line == calls[c].contents[j][l]
                IN  /\ ~IsLocalSegmentRef(line, Dirname(calls[c].files[j]))
                    /\ line.k = "url" => line.id \in IdsOf(blobMappings)
        /\ \A c \in MasterCalls :
            \A l \in 1..Len(calls[c].contents[1]) :
                LET line == calls[c].contents[1][l]
                IN  /\ ~IsLocalPlaylistRef(line)
                    /\ line.k = "url" => line.id \in IdsOf(blobMappings)

\* the original path of an uploaded temporary sub-manifest
OriginalOf(tempPath) ==
    PathJoin(Dirname(tempPath), PLAYLIST_NAME)

\* every file a successful invocation of the given kind was handed
FilesOf(cs) ==
    UNION {{calls[c].files[j] : j \in 1..Len(calls[c].files)} : c \in cs}

(* C2: the returned blob mapping holds exactly one entry per uploaded      *)
(* segment, per uploaded sub-manifest and for the master manifest, each    *)
(* keyed by the original (non-temporary) relative path.                    *)
C2_OneEntryPerUploadedFile ==
    pc = "done" =>
        LET m == returned[1].blobMappings
        IN  /\ Len(m) = Cardinality(Keys(m))
            /\ Keys(m) = FilesOf(SegmentCalls)
                         \cup {OriginalOf(t) : t \in FilesOf(SubManifestCalls)}
                         \cup {MASTER_NAME}

(* C3: after a run that completes without error no temporary file is left  *)
(* on disk, whatever structured result the storage client returned.        *)
C3_NoTemporaryFileLeft ==
    pc = "done" =>
        /\ TEMP_MASTER_NAME \notin DOMAIN disk
        /\ \A d \in RenditionDirs : PathJoin(d, TEMP_PLAYLIST_NAME) \notin DOMAIN disk

(* C6: after a full run, every line of the master manifest that equaled    *)
(* <dir>/playlist.m3u8 is, in the uploaded master manifest, the retrieval  *)
(* URL of that rendition's uploaded, rewritten sub-manifest.               *)
C6_MasterLinesRewritten ==
    pc = "done" =>
        \A c \in MasterCalls : \A s \in SubManifestCalls :
            \A j \in 1..Len(calls[s].files) :
                \A l \in 1..Len(disk[MASTER_NAME]) :
                    disk[MASTER_NAME][l] = TextLine(OriginalOf(calls[s].files[j]))
                        => /\ IndexOf(store, calls[s].contents[j]) # 0
                           /\ calls[c].contents[1][l] =
                                BlobUrl(IndexOf(store, calls[s].contents[j]))

\* the steps logged before step i
Before(i, names) ==
    {j \in 1..Len(events) : j < i /\ events[j].ev \in names}

\* every identifier the invocations cs resolved is in m, under its original path
MergedInto(m, cs) ==
    \A c \in cs : \A j \in 1..Len(calls[c].results) :
        Resolved(calls[c].results[j])
            => Lookup(m, IF c \in SubManifestCalls
                         THEN OriginalOf(calls[c].results[j].path)
                         ELSE calls[c].results[j].path)
                = ResolveBlobId(calls[c].results[j])

(* C7: the master manifest is rewritten only after the sub-manifest batch  *)
(* upload has completed and its identifiers are merged into the blob       *)
(* mapping, and each sub-manifest only after the segment batch upload has  *)
(* completed and been merged; no stage starts before the previous ended.   *)
C7_StageOrder ==
    \A i \in 1..Len(events) :
        /\ events[i].ev = "rewriteSubs" =>
            /\ Before(i, {"mergeSegments"}) # {}
            /\ Before(i, {"rewriteSubs", "uploadSubs", "mergeSubs",
                          "rewriteMaster", "uploadMaster"}) = {}
            /\ SegmentCalls # {}
            /\ MergedInto(events[i].map, SegmentCalls)
        /\ events[i].ev = "rewriteMaster" =>
            /\ Before(i, {"mergeSegments"}) # {}
            /\ Before(i, {"rewriteSubs"}) # {}
            /\ Before(i, {"uploadSubs"}) # {} => Before(i, {"mergeSubs"}) # {}
            /\ Before(i, {"rewriteMaster", "uploadMaster"}) = {}
            /\ MergedInto(events[i].map, SegmentCalls \cup SubManifestCalls)
        /\ events[i].ev \in {"uploadSegments", "mergeSegments"} =>
            Before(i, {"rewriteSubs", "uploadSubs", "mergeSubs",
                       "rewriteMaster", "uploadMaster"}) = {}

\* a run with all three batches has rewritten the master after two merges
C7_Witness ==
    /\ pc = "done"
    /\ Len(calls) = 3
    /\ \E i \in 1..Len(events) :
        /\ events[i].ev = "rewriteMaster"
        /\ Cardinality(Keys(events[i].map)) >= 4

\* the run is at an await whose promise uploadToWalrus has rejected
RejectionPending ==
    awaiting # <<>> /\ awaiting[1].rejected

(* C9: a batch-store invocation that exits non-zero or prints what is no   *)
(* structured result is fatal: the run fails without returning a mapping,  *)
(* no later stage runs, and no upload is retried.                          *)
C9_UploadFailureIsFatal ==
    /\ \A i \in 1..Len(calls) :
        calls[i].status # "ok" =>
            /\ i = Len(calls)
            /\ pc = "thrown" \/ RejectionPending
            /\ returned = <<>>
            /\ events[Len(events)].ev \in {"uploadSegments", "uploadSubs", "uploadMaster"}
            /\ Cardinality({e \in 1..Len(events) :
                    events[e].ev \in {"uploadSegments", "uploadSubs", "uploadMaster"}}) = i
    /\ \A i, j \in 1..Len(calls) : i # j => calls[i].files # calls[j].files
    /\ pc = "thrown" => calls # <<>> /\ calls[Len(calls)].status # "ok"

(* C11: whenever uploadHLSAssetsToWalrus throws, the invoking process     *)
(* prints the failure and terminates with a non-zero exit status; an       *)
(* uploader failure never ends in a normal (zero) exit.                    *)
C11_FailureExitsNonZero ==
    (pc = "thrown" /\ exitStatus # <<>>) =>
        /\ ERROR_UPLOADING \in {stderr[i] : i \in 1..Len(stderr)}
        /\ exitStatus[1] # 0

(* C12: whenever the run completes without error, the masterBlobId it      *)
(* returns is the identifier the storage client issued for the rewritten   *)
(* master manifest: it is defined, and the blob stored under it is the     *)
(* content that was uploaded as the master manifest.                       *)
C12_MasterBlobIdIssued ==
    pc = "done" =>
        /\ returned[1].masterBlobId # NoId
        /\ \A c \in MasterCalls :
                /\ returned[1].masterBlobId \in 1..Len(store)
                /\ store[returned[1].masterBlobId] = calls[c].contents[1]
        /\ MasterCalls # {}

\* the segment files of the output directory, as relative paths
AllSegmentPaths ==
    UNION {{PathJoin(d, dirList[d][i]) :
                i \in {j \in 1..Len(dirList[d]) : EndsWith(dirList[d][j], TS_EXT)}} :
           d \in RenditionDirs}

\* the temporary files of the rendition directories that hold a playlist.m3u8
AllTempPlaylistPaths ==
    {PathJoin(d, TEMP_PLAYLIST_NAME) : d \in {r \in RenditionDirs : HasPlaylist(dirList[r])}}

\* the files of an invocation, which names no file twice
FileSet(c) ==
    {c.files[j] : j \in 1..Len(c.files)}

NoDuplicates(c) ==
    Cardinality(FileSet(c)) = Len(c.files)

(* C14 as claimed: in every run that completes without error the storage   *)
(* client's batch-store operation is invoked exactly three times, once     *)
(* with all segment files, once with all rewritten sub-manifests, once     *)
(* with the rewritten master manifest, in this order, each for two epochs, *)
(* whatever the output directory holds.                                    *)
C14_ExactlyThreeInvocations ==
    pc = "done" =>
        /\ Len(calls) = 3
        /\ FileSet(calls[1]) = AllSegmentPaths /\ NoDuplicates(calls[1])
        /\ FileSet(calls[2]) = AllTempPlaylistPaths /\ NoDuplicates(calls[2])
        /\ calls[3].files = <<TempMasterPath>>
        /\ \A i \in 1..3 : calls[i].epochs = 2

(* C14 as amended: in every run that completes without error the           *)
(* batch-store operation is invoked once with all segment files, then once *)
(* with all rewritten sub-manifests if and only if some rendition          *)
(* directory holds playlist.m3u8, then once with the rewritten master      *)
(* manifest, each for two epochs: three invocations, or two when there is  *)
(* no sub-manifest.                                                        *)
C14_InvocationsPerRun ==
    pc = "done" =>
        /\ Len(calls) = IF AllTempPlaylistPaths = {} THEN 2 ELSE 3
        /\ FileSet(calls[1]) = AllSegmentPaths /\ NoDuplicates(calls[1])
        /\ AllTempPlaylistPaths # {} =>
                FileSet(calls[2]) = AllTempPlaylistPaths /\ NoDuplicates(calls[2])
        /\ calls[Len(calls)].files = <<TempMasterPath>>
        /\ \A i \in 1..Len(calls) : calls[i].epochs = 2 /\ ~Throws(calls[i])

\* a completed run over a rendition directory with segments and no playlist.m3u8
C14_Witness ==
    /\ pc = "done"
    /\ Len(calls) = 2
    /\ RenditionDirs # {}
    /\ calls[1].files # <<>>

(* C15: once the sub-manifest batch is merged, for every rendition whose   *)
(* temporary file received an identifier the blob mapping associates       *)
(* <r>/playlist.m3u8 with the identifier returned for                      *)
(* <r>/temp_playlist.m3u8, under which the store holds that rendition's    *)
(* own rewritten content; and the blob mapping never holds a key that      *)
(* names a temporary file.                                                 *)
C15_TempMappedToOriginal ==
    /\ \A k \in Keys(blobMappings) : ~IsTempPath(k)
    /\ \A i \in 1..Len(returned) : \A k \in Keys(returned[i].blobMappings) : ~IsTempPath(k)
    /\ (\E e \in 1..Len(events) : events[e].ev = "mergeSubs") =>
        \A c \in SubManifestCalls : \A j \in 1..Len(calls[c].results) :
            Resolved(calls[c].results[j]) =>
                LET r == Dirname(calls[c].files[j])
                    id == Lookup(blobMappings, PathJoin(r, PLAYLIST_NAME))
                IN  /\ calls[c].results[j].path = PathJoin(r, TEMP_PLAYLIST_NAME)
                    /\ id = ResolveBlobId(calls[c].results[j])
                    /\ id \in 1..Len(store)
                    /\ store[id] = calls[c].contents[j]

\* two renditions whose rewritten sub-manifests got different identifiers, merged
C15_Witness ==
    /\ \E e \in 1..Len(events) : events[e].ev = "mergeSubs"
    /\ Lookup(blobMappings, PathJoin(stream_1, PLAYLIST_NAME)) # NoId
    /\ Lookup(blobMappings, PathJoin(stream_10, PLAYLIST_NAME)) # NoId
    /\ Lookup(blobMappings, PathJoin(stream_1, PLAYLIST_NAME))
            # Lookup(blobMappings, PathJoin(stream_10, PLAYLIST_NAME))

(* C17: the upload pipeline never modifies or deletes an original asset:   *)
(* in every state of a run, successful or failed, every playlist.m3u8,     *)
(* master.m3u8 and segment file is on disk with the content it had before  *)
(* the run; the rewritten text goes to the temporary files only.           *)
C17_OriginalsUntouched ==
    \A before \in {DiskOf(dirList)} :
        /\ \A p \in DOMAIN before : p \in DOMAIN disk /\ disk[p] = before[p]
        /\ \A p \in DOMAIN disk : p \in DOMAIN before \/ IsTempPath(p)

\* a rewritten sub-manifest that differs from its original is on disk beside it
C17_Witness ==
    \E d \in RenditionDirs :
        /\ PathJoin(d, TEMP_PLAYLIST_NAME) \in DOMAIN disk
        /\ disk[PathJoin(d, TEMP_PLAYLIST_NAME)] # disk[PathJoin(d, PLAYLIST_NAME)]
        /\ pc \in {"thrown", "done"}

\* the path, relative to the output root, of a file handed to the storage client
DiskPathOf(file) ==
    IF file = TempMasterPath THEN TEMP_MASTER_NAME ELSE file

(* C18: no temporary file is cleaned up on the error path: when the        *)
(* sub-manifest batch upload fails every temp_playlist.m3u8 written before *)
(* it is still on disk when the run has terminated, when the master upload *)
(* fails so is temp_master.m3u8; a temporary file is gone only after the   *)
(* upload that covers it has succeeded.                                    *)
C18_TempFilesLeftOnFailure ==
    /\ pc = "thrown" =>
            \A f \in FileSet(calls[Len(calls)]) :
                IsTempPath(f) => DiskPathOf(f) \in DOMAIN disk
    /\ (pc = "thrown" /\ Len(calls) > 1) =>
            /\ FileSet(calls[Len(calls)]) # {}
            /\ \A f \in FileSet(calls[Len(calls)]) : IsTempPath(f)
    /\ \A c \in 1..Len(calls) : \A f \in FileSet(calls[c]) :
            (IsTempPath(f) /\ DiskPathOf(f) \notin DOMAIN disk) => calls[c].status = "ok"

(* C19: with a storage client that returns the same identifier for         *)
(* identical bytes, a second run over the same unchanged output directory  *)
(* produces the same rewritten sub-manifests, the same rewritten master    *)
(* manifest, the same blob mapping and the same master blob identifier,    *)
(* whatever order the listings return the rendition directories and the    *)
(* segment files in.                                                       *)
C19_RerunDeterministic ==
    (pc = "done" /\ previous # <<>> /\ FullyResolved) =>
        RunResult = previous[1]

-----------------------------------------------------------------------------
(* Properties of the rewriting passes (SpecRewrite) *)

\* the entries of m that are segments of the rendition directory streamDir
SegmentEntriesOf(m, streamDir) ==
    {k \in 1..Len(m) : /\ StartsWith(m[k].path, streamDir \o SEP)
                       /\ EndsWith(m[k].path, TS_EXT)}

(* C4: for a rendition directory r and every mapping entry under r that    *)
(* ends in .ts, updatePlaylistContent replaces every line exactly equal to *)
(* that segment's bare filename with the retrieval URL of that very        *)
(* segment's identifier.                                                   *)
C4_OwnSegmentUrl ==
    fn = "updatePlaylistContent" =>
        \A k \in SegmentEntriesOf(arg.m, arg.streamDir) :
            \A i \in 1..Len(arg.content) :
                arg.content[i] = TextLine(Basename(arg.m[k].path))
                    => ret[i] = BlobUrl(arg.m[k].id)

(* C5: the rewriting passes alter no other line: a sub-manifest line that  *)
(* is not exactly the bare filename of a mapped segment of the rendition,  *)
(* and a master line that is not exactly <dir>/playlist.m3u8 of a mapped   *)
(* sub-manifest, is found unchanged at the same position.                  *)
C5_OtherLinesUnchanged ==
    /\ fn = "updatePlaylistContent" =>
        /\ Len(ret) = Len(arg.content)
        /\ \A i \in 1..Len(arg.content) :
            (\A k \in SegmentEntriesOf(arg.m, arg.streamDir) :
                arg.content[i] # TextLine(Basename(arg.m[k].path)))
                => ret[i] = arg.content[i]
    /\ fn = "rewriteMaster" =>
        /\ Len(ret) = Len(arg.content)
        /\ \A i \in 1..Len(arg.content) :
            (\A k \in 1..Len(arg.m) :
                EndsWith(arg.m[k].path, PLAYLIST_NAME)
                    => arg.content[i] # TextLine(arg.m[k].path))
                => ret[i] = arg.content[i]

-----------------------------------------------------------------------------
(* Properties of the result parser (SpecUpload) *)

(* C8: uploadToWalrus maps each record's path to the alreadyCertified      *)
(* identifier when that variant is present and otherwise to the            *)
(* newlyCreated one (the last record of a path deciding); a record with    *)
(* neither is omitted, and the mapping holds no other key.                 *)
C8_ParsedMapping ==
    fn = "uploadToWalrus" =>
        /\ Keys(ret) = {arg[i].path : i \in {j \in 1..Len(arg) : Resolved(arg[j])}}
        /\ Len(ret) = Cardinality(Keys(ret))
        /\ \A i \in 1..Len(arg) :
            (/\ Resolved(arg[i])
             /\ \A j \in (i + 1)..Len(arg) :
                    Resolved(arg[j]) => arg[j].path # arg[i].path)
                => Lookup(ret, arg[i].path) =
                        IF arg[i].ac # NoId THEN arg[i].ac ELSE arg[i].nc

\* a result with both variants in one record and neither in another, parsed
C8_Witness ==
    /\ fn = "uploadToWalrus"
    /\ Len(arg) = 2
    /\ arg[1].ac # NoId /\ arg[1].nc # NoId /\ arg[1].ac # arg[1].nc
    /\ ~Resolved(arg[2]) /\ arg[2].path # arg[1].path
    /\ Keys(ret) = {arg[1].path}

-----------------------------------------------------------------------------
(* Properties of validateInputFile (SpecValidate) *)

\* the last component of the path ends, whatever the case, in ".mp4" after a name
HasMp4Extension(p) ==
    LET b == ToLowerCase(LastComponent(p))
    IN  Len(b) > Len(MP4_EXT) /\ EndsWith(b, MP4_EXT)

(* C10: validateInputFile has exactly one of three outcomes: not-found     *)
(* when the path does not exist, whatever its extension; otherwise         *)
(* unsupported-format when the extension, compared case-insensitively, is  *)
(* not .mp4; otherwise it accepts.                                         *)
C10_ValidateOutcome ==
    fn = "validateInputFile" =>
        /\ ret \in {"NotFound", "UnsupportedFormat", "accepted"}
        /\ ret = "NotFound" <=> ~arg.exists
        /\ ret = "UnsupportedFormat" <=> (arg.exists /\ ~HasMp4Extension(arg.path))
        /\ ret = "accepted" <=> (arg.exists /\ HasMp4Extension(arg.path))

\* an existing file with an upper-case extension has been accepted
C10_Witness ==
    /\ fn = "validateInputFile"
    /\ arg.exists
    /\ ExtName(arg.path) = <<".", "M", "P", "4">>
    /\ ret = "accepted"

-----------------------------------------------------------------------------
(* Properties of the ledger module (SpecVideo) *)

(* C13: each call of save_video creates exactly one Video carrying the     *)
(* given title, description and reference and the epoch timestamp of the   *)
(* call, and shares it; after any sequence of calls every record ever      *)
(* created is still there with its creation-time values, shared, under an  *)
(* identifier of its own.                                                  *)
C13_VideoRecords ==
    /\ Len(videos) = Len(saved)
    /\ \A i \in 1..Len(videos) :
        /\ videos[i].owner = "Shared"
        /\ videos[i].obj.title = saved[i].title
        /\ videos[i].obj.description = saved[i].description
        /\ videos[i].obj.master_manifest_url = UrlNewUnsafe(saved[i].url)
        /\ videos[i].obj.created_at = saved[i].at
        /\ \A j \in 1..Len(videos) : i # j => videos[i].obj.id # videos[j].obj.id

\* two records created in different epochs, a later epoch reached since
C13_Witness ==
    /\ Len(videos) = 2
    /\ videos[1].obj.created_at = 0
    /\ videos[2].obj.created_at = 1
    /\ videos[1].obj.title # videos[2].obj.title
    /\ epochTimestampMs = 2

-----------------------------------------------------------------------------
(* Properties of the conversion stage (SpecTranscode) *)

\* runFFmpegConversion has been called and has come back
TranscodeEnded ==
    ret \in {"converted", "TranscodeFailed"}

(* C16: runFFmpegConversion changes the working directory to the output    *)
(* directory before it invokes the transcoder, invokes it exactly once,    *)
(* and when the transcoder exits non-zero raises a fatal error: no second  *)
(* invocation and no further stage.                                        *)
C16_ChdirThenOneInvocation ==
    /\ ~TranscodeEnded => execLog = <<>> /\ cwd = CWD0
    /\ TranscodeEnded =>
        /\ Len(execLog) = 1
        /\ execLog[1].cwd = Resolve(CWD0, arg.outputDir)
        /\ cwd = Resolve(CWD0, arg.outputDir)
        /\ execLog[1].exit # 0 <=> (ret = "TranscodeFailed" /\ fn = "failed")
        /\ execLog[1].exit = 0 <=> (ret = "converted" /\ fn = "converted")

\* the transcoder was run in an output directory other than the start directory and failed
C16_Witness ==
    /\ ret = "TranscodeFailed"
    /\ fn = "failed"
    /\ cwd # CWD0
    /\ Resolve(cwd, arg.inputFile) \in arg.files
    /\ Len(execLog) = 1

(* C20: for every input path validateInputFile accepted, relative paths    *)
(* included, the input path handed to the transcoder names, in the working *)
(* directory the transcoder is invoked in, the file that was validated.    *)
C20_TranscodesValidatedFile ==
    \A i \in 1..Len(execLog) :
        Resolve(execLog[i].cwd, execLog[i].input) = Resolve(CWD0, arg.inputFile)

-----------------------------------------------------------------------------
(* Properties of the useHlsPlayer hook (SpecPlayer) *)

\* at most one Hls instance that has not been destroyed exists
OneLiveInstance ==
    Cardinality(Live) <= 1

\* changeQuality has set currentLevel only on instances that were not destroyed
WritesOnLiveInstance ==
    \A w \in 1..Len(levelWrites) : ~levelWrites[w].destroyed

(* C21: over any sequence of URL changes, manifest, level and error        *)
(* events, quality selections and unmount, at most one non-destroyed Hls   *)
(* instance exists at a time, and changeQuality only ever sets             *)
(* currentLevel on an Hls instance that has not been destroyed.            *)
C21_QualityOnLiveInstance ==
    /\ OneLiveInstance
    /\ WritesOnLiveInstance

=============================================================================
